---- MODULE Spec2Model ----
(***************************************************************************)
(* A model of chirpy: the HTTP service of main.go and internal/http.       *)
(*                                                                         *)
(*   Spec        the wired server: the mux of NewWithConfig and main, the  *)
(*               method guard, the metrics middleware around the file      *)
(*               server, the metrics / reset / healthz handlers and the    *)
(*               chirp validator, served by concurrent goroutines.         *)
(*   SpecChirp   HandleValidateChirp called directly on one request, the   *)
(*               payload drawn from a bounded family of JSON texts.        *)
(*   SpecRedact  the profanity filter applied to a bounded family of       *)
(*               texts.                                                    *)
(*   SpecNearLimit  the wired server with the hit counter one below the    *)
(*               largest int32.                                            *)
(*   SpecLife    ListenAndServe and Shutdown of a Server, a second Server  *)
(*               on the same port, and the clients' connections, in every  *)
(*               interleaving.                                             *)
(*   SpecMain    the process of main: its Server, the signal and the       *)
(*               Shutdown with a context of 5 seconds.                     *)
(*   SpecRoutes  the wired server with the mux's dispatch of a request to  *)
(*               /app/ and the middleware's Add as two steps.              *)
(*   SpecCompose the method guard and the metrics middleware stacked in    *)
(*               either order around a handler and called directly.        *)
(*   SpecRedactLive  the profanity filter's loop under weak fairness.      *)
(*                                                                         *)
(* Text is a sequence of code points, each a one-element string; a code    *)
(* point outside ASCII is written "U+XXXX".                                *)
(***************************************************************************)
EXTENDS Integers, Sequences, FiniteSets, TLC

\* ------------------------------------------------------------------ bounds

\* Goroutines serving requests at the same time.
MaxRequests == 2
\* The hit counter is not driven beyond this value.
MaxHits == 3
\* Calls of Shutdown in one run.
MaxCalls == 2
\* Client connections in one run.
MaxConns == 2

\* ------------------------------------------------------------- characters

UpperLetters ==
  <<"A","B","C","D","E","F","G","H","I","J","K","L","M",
    "N","O","P","Q","R","S","T","U","V","W","X","Y","Z">>

LowerLetters ==
  <<"a","b","c","d","e","f","g","h","i","j","k","l","m",
    "n","o","p","q","r","s","t","u","v","w","x","y","z">>

DecimalDigits == <<"0","1","2","3","4","5","6","7","8","9">>

\* strconv / fmt %d: the decimal digits of a natural number, most significant first.
RECURSIVE FormatNat(_)
FormatNat(n) ==
  IF n < 10 THEN <<DecimalDigits[n + 1]>>
  ELSE FormatNat(n \div 10) \o <<DecimalDigits[(n % 10) + 1]>>

\* fmt's %d verb on an int32.
\* The magnitude of a negative n is m + 1 for m = -(n + 1), which is in range
\* also for the smallest int32.
FormatInt(n) ==
  IF n >= 0 THEN FormatNat(n)
  ELSE LET m == 0 - (n + 1)
           d == (m % 10) + 1
           q == m \div 10
       IN  <<"-">> \o (IF d = 10 THEN FormatNat(q + 1) \o <<"0">>
                       ELSE IF q = 0 THEN <<DecimalDigits[d + 1]>>
                       ELSE FormatNat(q) \o <<DecimalDigits[d + 1]>>)

\* ---------------------------------------------------------------- int32

MaxInt32 == 2147483647
MinInt32 == (0 - MaxInt32) - 1

\* x + d in int32 for d >= 0, wrapping around in two's complement.
WrapAdd(x, d) ==
  IF x > MaxInt32 - d THEN MinInt32 + ((d - 1) - (MaxInt32 - x)) ELSE x + d

\* The model follows the counter for MaxHits increments from 0, from just
\* below the largest int32, and from the smallest int32.
CanCount(n) ==
  \/ n >= 0 /\ n < MaxHits
  \/ n > MaxInt32 - MaxHits
  \/ n < MinInt32 + MaxHits

\* atomic.Int32.Add as a store of the constant: every request overwrites the count.
AddInt32_Store(cur, delta) == delta

\* atomic.Int32.Add: one indivisible read-modify-write; the new value.
AddInt32(cur, delta) == WrapAdd(cur, delta)

\* atomic.Int32.Store that keeps the old value.
StoreInt32_Keep(cur, v) == cur

\* atomic.Int32.Store: the stored value replaces the current one.
StoreInt32(cur, v) == v

\* ------------------------------------------------------------- responses

\* What the http.ResponseWriter holds: status line, the two headers the
\* handlers set, and the body (plain text as code points, or the one-member
\* JSON object the encoder wrote: key, and the value as a literal or as text).
NoBody == [kind |-> "none", text |-> <<>>, key |-> "", val |-> ""]
TextBody(t) == [kind |-> "text", text |-> t, key |-> "", val |-> ""]
JSONBody(k, v) == [kind |-> "json", text |-> <<>>, key |-> k, val |-> v]

NoResponse == [status |-> 0, contentType |-> "", allow |-> "", body |-> NoBody]
Response(st, ct, al, b) == [status |-> st, contentType |-> ct, allow |-> al, body |-> b]

StatusOK == 200
StatusBadRequest == 400
StatusMethodNotAllowed == 405

\* ---------------------------------------------------------------- routing

Methods == {"GET", "POST", "DELETE"}

\* The patterns registered on the mux by NewWithConfig and by main.
Patterns == {"/", "/app/", "/api/healthz", "/api/validate_chirp", "/metrics", "/reset"}

\* The handler the mux dispatches a path to, and the method its guard allows
\* ("" where the route has no guard).
Mux(path) ==
  CASE path = "/app/"               -> [handler |-> "app",      method |-> ""]
    [] path = "/api/healthz"        -> [handler |-> "healthz",  method |-> "GET"]
    [] path = "/api/validate_chirp" -> [handler |-> "validate", method |-> "POST"]
    [] path = "/metrics"            -> [handler |-> "metrics",  method |-> "GET"]
    [] path = "/reset"              -> [handler |-> "reset",    method |-> "POST"]
    [] OTHER                        -> [handler |-> "home",     method |-> ""]

\* What a handler's writes (out) leave in a ResponseWriter that is in state
\* w when the handler gets it: a status already written stands, and headers
\* set after it are not sent; a header w holds stays unless the handler sets
\* it again; the body is appended to.
WriteOn(w, out) ==
  [status |-> IF w.status # 0 THEN w.status ELSE out.status,
   contentType |-> IF w.status = 0 /\ out.contentType # "" THEN out.contentType
                   ELSE w.contentType,
   allow |-> IF w.status = 0 /\ out.allow # "" THEN out.allow ELSE w.allow,
   body |-> IF w.body.kind = "none" THEN out.body
            ELSE IF out.body.kind = "none" THEN w.body
            ELSE [kind |-> "mixed", text |-> w.body.text \o out.body.text,
                  key |-> out.body.key, val |-> out.body.val]]

\* MethodRestriction that sets the Allow header before it looks at the method.
MethodRestriction_AllowFirst(method, rmethod) ==
  IF rmethod # method
    THEN [invoke |-> FALSE,
          resp |-> Response(StatusMethodNotAllowed, "", method, NoBody)]
    ELSE [invoke |-> TRUE, resp |-> Response(0, "", method, NoBody)]

\* MethodRestriction that lets every method through to the wrapped handler.
MethodRestriction_NoCheck(method, rmethod) ==
  [invoke |-> TRUE, resp |-> NoResponse]

\* MethodRestriction that names the request's method in the Allow header.
MethodRestriction_EchoAllow(method, rmethod) ==
  IF rmethod # method
    THEN [invoke |-> FALSE,
          resp |-> Response(StatusMethodNotAllowed, "", rmethod, NoBody)]
    ELSE [invoke |-> TRUE, resp |-> NoResponse]

\* MethodRestriction(method, next) on a request with method rmethod: either the
\* 405 it writes itself, or the decision to call next, with the state of the
\* ResponseWriter it hands to next.
MethodRestriction(method, rmethod) ==
  IF rmethod # method
    THEN [invoke |-> FALSE,
          resp |-> Response(StatusMethodNotAllowed, "", method, NoBody)]
    ELSE [invoke |-> TRUE, resp |-> NoResponse]

\* ------------------------------------------------------------ JSON input

\* A request payload is a sequence of JSON tokens.  t is the token's kind: a
\* punctuator, "str" (a string literal, s its decoded text), "num", "true",
\* "null", or "bad" (bytes that begin no JSON token).
Tok(t) == [t |-> t, s |-> <<>>]
Str(s) == [t |-> "str", s |-> s]

ScalarKinds == {"str", "num", "true", "null"}

\* The scanner of encoding/json on the value that begins at token i: the index
\* just past the value, or 0 when the text is not the beginning of a complete
\* JSON value (a syntax error, or the input ends first).
RECURSIVE ScanValue(_, _)
RECURSIVE ScanMembers(_, _)
RECURSIVE ScanElements(_, _)
ScanValue(toks, i) ==
  IF i > Len(toks) THEN 0
  ELSE CASE toks[i].t \in ScalarKinds -> i + 1
         [] toks[i].t = "{" ->
              IF i + 1 <= Len(toks) /\ toks[i + 1].t = "}" THEN i + 2
              ELSE ScanMembers(toks, i + 1)
         [] toks[i].t = "[" ->
              IF i + 1 <= Len(toks) /\ toks[i + 1].t = "]" THEN i + 2
              ELSE ScanElements(toks, i + 1)
         [] OTHER -> 0

\* key : value { , key : value } '}' with the first key at token i.
ScanMembers(toks, i) ==
  IF i + 1 > Len(toks) \/ toks[i].t # "str" \/ toks[i + 1].t # ":" THEN 0
  ELSE LET j == ScanValue(toks, i + 2)
       IN  IF j = 0 \/ j > Len(toks) THEN 0
           ELSE CASE toks[j].t = "," -> ScanMembers(toks, j + 1)
                  [] toks[j].t = "}" -> j + 1
                  [] OTHER -> 0

\* value { , value } ']' with the first value at token i.
ScanElements(toks, i) ==
  LET j == ScanValue(toks, i)
  IN  IF j = 0 \/ j > Len(toks) THEN 0
      ELSE CASE toks[j].t = "," -> ScanElements(toks, j + 1)
             [] toks[j].t = "]" -> j + 1
             [] OTHER -> 0

\* unicode.ToLower on the letters of the alphabet; other code points map to themselves.
FoldTable ==
  [c \in {UpperLetters[i] : i \in 1..Len(UpperLetters)} |->
     LowerLetters[CHOOSE i \in 1..Len(UpperLetters) : UpperLetters[i] = c]]

ToLower(c) == IF c \in DOMAIN FoldTable THEN FoldTable[c] ELSE c

\* strings.EqualFold on texts over the alphabet.
EqualFold(a, b) ==
  /\ Len(a) = Len(b)
  /\ \A i \in 1..Len(a) : ToLower(a[i]) = ToLower(b[i])

BodyKey == <<"b", "o", "d", "y">>

\* Unmarshal of the members of an object into validateChirpRequest, the first
\* key at token i, the object known to be well formed: a member whose key
\* matches the json tag "body" (encoding/json matches without regard to case)
\* must hold a string, which is stored, or null, which is skipped; any other
\* value there is an UnmarshalTypeError, reported once the object is read.
\* Members with other keys are ignored.  acc is [err, body] so far.
RECURSIVE UnmarshalMembers(_, _, _)
UnmarshalMembers(toks, i, acc) ==
  LET j == ScanValue(toks, i + 2)
      isBody == EqualFold(toks[i].s, BodyKey)
      v == toks[i + 2]
      acc2 == IF ~isBody \/ v.t = "null" THEN acc
              ELSE IF v.t = "str" THEN [acc EXCEPT !.body = v.s]
              ELSE [acc EXCEPT !.err = TRUE]
  IN  IF toks[j].t = "," THEN UnmarshalMembers(toks, j + 1, acc2) ELSE acc2

\* json.NewDecoder(r.Body).Decode(&req) on a fresh validateChirpRequest: reads
\* the first JSON value of the payload and nothing after it.
\*   - no complete value (also the empty payload): an error;
\*   - null: no error, req unchanged;
\*   - an object: its members are unmarshalled;
\*   - any other value: an UnmarshalTypeError.
Decode(toks) ==
  LET end == ScanValue(toks, 1)
      zero == [err |-> FALSE, body |-> <<>>]
  IN  IF end = 0 THEN [err |-> TRUE, body |-> <<>>]
      ELSE CASE toks[1].t = "null" -> zero
             [] toks[1].t = "{" ->
                  IF toks[2].t = "}" THEN zero ELSE UnmarshalMembers(toks, 2, zero)
             [] OTHER -> [err |-> TRUE, body |-> <<>>]

\* ------------------------------------------------------- chirp validation

MaxChirpLength == 140

\* Bytes of the UTF-8 encoding of a code point of the alphabet.
Utf8Len(c) ==
  CASE c = "U+00E9" -> 2
    [] c = "U+20AC" -> 3
    [] OTHER -> 1

\* len(s) of a Go string: its bytes.
RECURSIVE ByteLen(_)
ByteLen(s) == IF s = <<>> THEN 0 ELSE Utf8Len(Head(s)) + ByteLen(Tail(s))

\* The length test on the bytes of the body.
RuneCount_Bytes(s) == ByteLen(s)

\* len([]rune(s)): the code points of the body.
RuneCount(s) == Len(s)

ApplicationJSON == "application/json"
TextPlain == "text/plain; charset=utf-8"

\* The length test that also turns away a body of exactly the limit.
ChirpTooLong_AtLimit(body) == RuneCount(body) >= MaxChirpLength

\* The test of HandleValidateChirp on the decoded body.
ChirpTooLong(body) == RuneCount(body) > MaxChirpLength

\* HandleValidateChirp that reports a decoding error as http.Error does:
\* plain text instead of a JSON object.
ValidateChirp_PlainError(payload) ==
  LET d == Decode(payload)
  IN  IF d.err
        THEN [resp |-> Response(StatusBadRequest, TextPlain, "",
                                TextBody(<<"I", "n", "v", "a", "l", "i", "d">>)),
              measured |-> FALSE]
      ELSE IF ChirpTooLong(d.body)
        THEN [resp |-> Response(StatusBadRequest, ApplicationJSON, "",
                                JSONBody("error", "Chirp is too long")),
              measured |-> TRUE]
      ELSE [resp |-> Response(StatusOK, ApplicationJSON, "",
                              JSONBody("valid", "true")),
            measured |-> TRUE]

\* HandleValidateChirp on a payload: the response it writes; measured tells
\* whether the handler got as far as the length test.
ValidateChirp(payload) ==
  LET d == Decode(payload)
  IN  IF d.err
        THEN [resp |-> Response(StatusBadRequest, ApplicationJSON, "",
                                JSONBody("error", "Invalid JSON")),
              measured |-> FALSE]
      ELSE IF ChirpTooLong(d.body)
        THEN [resp |-> Response(StatusBadRequest, ApplicationJSON, "",
                                JSONBody("error", "Chirp is too long")),
              measured |-> TRUE]
      ELSE [resp |-> Response(StatusOK, ApplicationJSON, "",
                              JSONBody("valid", "true")),
            measured |-> TRUE]

\* ------------------------------------------------------------------ state

VARIABLES
  fileserverHits,  \* apiConfig.fileserverHits, the atomic int32
  pc,              \* per goroutine: where it stands in serving its request
  req,             \* per goroutine: the request it serves
  sent,            \* the exchange completed last: the request, the response
                   \* written, and what was observed while it was served
  sinceReset,      \* history: "none" before any reset, "clean" from a Store(0)
                   \*          until the next increment, "dirty" after it
  window,          \* history: the current batch of overlapping /app/ requests
  tally,           \* history: the /app/ requests the mux has dispatched, and
                   \*          those that have passed the middleware's Add,
                   \*          since the last Store(0) or the start; and those
                   \*          that Store(0) found dispatched and not yet counted
  text,            \* the filter's input
  work,            \* the filter's text under rewriting
  scanFrom,        \* the filter's resume position
  rstate,          \* "scan" while the filter runs, "done" after, "off" unused
  inShutdown,      \* per Server: http.Server.inShutdown
  serve,           \* per Server: where its ListenAndServe stands, and its result
  port,            \* the Server that holds the listening socket on :8080, or 0
  call,            \* per call of Shutdown: where it stands, its context, its result
  conn,            \* per client connection: its state at the server
  mainpc           \* where main stands; "none" when the Servers are driven
                   \* by the tests and no main runs

vars == <<fileserverHits, pc, req, sent, sinceReset, window, tally,
          text, work, scanFrom, rstate,
          inShutdown, serve, port, call, conn, mainpc>>

filterVars == <<text, work, scanFrom, rstate>>

lifeVars == <<inShutdown, serve, port, call, conn, mainpc>>

ServerVars == <<fileserverHits, pc, req, sent, sinceReset, window, tally>>

\* The Servers of one run: server1 and server2 of the port conflict test.
\* Shutdown is called on server1, which in main is the only Server of the
\* process; server2 is then the Server of another process.
Srv == {"server1", "server2"}
NoServer == "none"
Call == 1..MaxCalls
Conn == 1..MaxConns

NoCall == [pc |-> "idle", ctx |-> "live", err |-> "", late |-> ""]
NoConn == [st |-> "none", srv |-> NoServer, late |-> FALSE]

Req == 1..MaxRequests

NoRequest == [method |-> "", path |-> "", payload |-> <<>>]
NoWindow == [open |-> FALSE, base |-> 0, count |-> 0]
NoTally == [routed |-> 0, passed |-> 0, carried |-> 0]

\* The mux has dispatched one more request to the /app/ handler; one more
\* request has passed the middleware's Add.
Routed(t) == [t EXCEPT !.routed = @ + 1]
Passed(t) == [t EXCEPT !.passed = @ + 1]

\* A completed exchange.  calls: times the handler behind the wrapper (the
\* guard's next, the middleware's next) was entered; nextResp: the response as
\* the middleware's wrapped handler left it; measured: the chirp handler
\* reached its length test; seen: sinceReset at the metrics handler's Load.
Exchange(rq, rs, n, nr, ms, sn) ==
  [req |-> rq, resp |-> rs, calls |-> n, nextResp |-> nr, measured |-> ms, seen |-> sn]

NoExchange == Exchange(NoRequest, NoResponse, 0, NoResponse, FALSE, "none")

\* /app/ requests the mux has handed to the middleware, which has not yet
\* counted them.
Dispatching == {r \in Req : pc[r] = "routed"}

\* /app/ requests whose wrapped handler has not returned yet.
InFlight == {r \in Req : pc[r] = "next"}

\* Payloads sent to the wired server.
ServerPayloads ==
  { <<Tok("{"), Str(BodyKey), Tok(":"), Str(<<"h", "i">>), Tok("}")>>,
    <<Tok("{"), Tok("bad")>> }

\* What the external file handler may answer: the file, or a failure.
FileServerResponses ==
  { Response(StatusOK, TextPlain, "", TextBody(<<"f", "i", "l", "e">>)),
    Response(404, TextPlain, "", TextBody(<<"4", "0", "4">>)),
    Response(500, TextPlain, "", NoBody) }

InitServer ==
  /\ fileserverHits = 0
  /\ pc = [r \in Req |-> "idle"]
  /\ req = [r \in Req |-> NoRequest]
  /\ sent = NoExchange
  /\ sinceReset = "none"
  /\ window = NoWindow
  /\ tally = NoTally

InitFilterOff ==
  /\ text = <<>>
  /\ work = <<>>
  /\ scanFrom = 1
  /\ rstate = "off"

\* The Server of main while it serves: ListenAndServe is in its accept loop
\* and nobody has called Shutdown.
InitServing ==
  /\ inShutdown = [s \in Srv |-> FALSE]
  /\ serve = [s \in Srv |-> IF s = "server1" THEN [pc |-> "accept", err |-> ""]
                                             ELSE [pc |-> "idle", err |-> ""]]
  /\ port = "server1"
  /\ call = [k \in Call |-> NoCall]
  /\ conn = [c \in Conn |-> NoConn]
  /\ mainpc = "wait"

Init == InitServer /\ InitFilterOff /\ InitServing

\* Servers as New() or NewWithConfig() returns them, in a test: nothing called yet.
InitNotStarted ==
  /\ inShutdown = [s \in Srv |-> FALSE]
  /\ serve = [s \in Srv |-> [pc |-> "idle", err |-> ""]]
  /\ port = NoServer
  /\ call = [k \in Call |-> NoCall]
  /\ conn = [c \in Conn |-> NoConn]
  /\ mainpc = "none"

\* ---------------------------------------------------------------- actions
\* A goroutine takes a request when it arrives and runs the handler chain the
\* mux selects for its path.  Each action is a stretch of that chain up to and
\* including its one access to the shared counter; the stretches of a handler
\* that only touch the request and the ResponseWriter run in the same step.

\* The goroutine has written its response and returns to the pool.
Finish(r, ex) ==
  /\ sent' = ex
  /\ pc' = [pc EXCEPT ![r] = "idle"]
  /\ req' = [req EXCEPT ![r] = NoRequest]

\* The 405 exchange of a guard that turned the request away.
Refused(rq, g) == Exchange(rq, g.resp, 0, NoResponse, FALSE, "none")

\* The metrics middleware that delegates without counting.
MiddlewareMetricsInc_NoCount(r) ==
  /\ pc[r] = "idle"
  /\ CanCount(fileserverHits)
  /\ \E m \in Methods :
       req' = [req EXCEPT ![r] = [method |-> m, path |-> "/app/", payload |-> <<>>]]
  /\ pc' = [pc EXCEPT ![r] = "next"]
  /\ window' = IF InFlight = {}
                 THEN [open |-> TRUE, base |-> fileserverHits, count |-> 1]
               ELSE IF window.open THEN [window EXCEPT !.count = @ + 1]
               ELSE window
  /\ tally' = Passed(Routed(tally))
  /\ UNCHANGED <<fileserverHits, sent, sinceReset>>
  /\ UNCHANGED filterVars
  /\ UNCHANGED lifeVars

\* A request for /app/: middlewareMetricsInc does cfg.fileserverHits.Add(1)
\* and then calls next.ServeHTTP(w, r), whatever the request.
MiddlewareMetricsInc(r) ==
  /\ pc[r] = "idle"
  /\ CanCount(fileserverHits)
  /\ \E m \in Methods :
       req' = [req EXCEPT ![r] = [method |-> m, path |-> "/app/", payload |-> <<>>]]
  /\ fileserverHits' = AddInt32(fileserverHits, 1)
  /\ pc' = [pc EXCEPT ![r] = "next"]
  /\ sinceReset' = IF sinceReset = "clean" THEN "dirty" ELSE sinceReset
  /\ window' = IF InFlight = {}
                 THEN [open |-> TRUE, base |-> fileserverHits, count |-> 1]
               ELSE IF window.open THEN [window EXCEPT !.count = @ + 1]
               ELSE window
  /\ tally' = Passed(Routed(tally))
  /\ sent' = sent
  /\ UNCHANGED filterVars
  /\ UNCHANGED lifeVars

\* The handler the middleware wraps (StripPrefix + FileServer, external): it
\* writes some response, a failure among them, and returns through the
\* middleware, which adds nothing.
FileServer(r) ==
  /\ pc[r] = "next"
  /\ \E out \in FileServerResponses :
       Finish(r, Exchange(req[r], out, 1, out, FALSE, "none"))
  /\ UNCHANGED <<fileserverHits, sinceReset, window, tally>>
  /\ UNCHANGED filterVars
  /\ UNCHANGED lifeVars

\* A request for "/": handleHome, http.ServeFile of index.html (external).
HandleHome(r) ==
  /\ pc[r] = "idle"
  /\ \E m \in Methods, out \in FileServerResponses :
       /\ out.status # 500
       /\ Finish(r, Exchange([method |-> m, path |-> "/", payload |-> <<>>],
                             out, 1, NoResponse, FALSE, "none"))
  /\ UNCHANGED <<fileserverHits, sinceReset, window, tally>>
  /\ UNCHANGED filterVars
  /\ UNCHANGED lifeVars

\* handleHealthz that looks at the other goroutines: 503 while a request for
\* /app/ is in flight.
HandleHealthz_Shared(r) ==
  /\ pc[r] = "idle"
  /\ \E m \in Methods :
       LET rq == [method |-> m, path |-> "/api/healthz", payload |-> <<>>]
           g == MethodRestriction(Mux(rq.path).method, m)
       IN  IF ~g.invoke THEN Finish(r, Refused(rq, g))
           ELSE Finish(r, Exchange(rq,
                            WriteOn(g.resp,
                                    Response(IF InFlight = {} THEN StatusOK ELSE 503,
                                             TextPlain, "", TextBody(<<"O", "K">>))),
                            1, NoResponse, FALSE, "none"))
  /\ UNCHANGED <<fileserverHits, sinceReset, window, tally>>
  /\ UNCHANGED filterVars
  /\ UNCHANGED lifeVars

\* A request for /api/healthz: the guard, then handleHealthz.
HandleHealthz(r) ==
  /\ pc[r] = "idle"
  /\ \E m \in Methods :
       LET rq == [method |-> m, path |-> "/api/healthz", payload |-> <<>>]
           g == MethodRestriction(Mux(rq.path).method, m)
       IN  IF ~g.invoke THEN Finish(r, Refused(rq, g))
           ELSE Finish(r, Exchange(rq,
                            WriteOn(g.resp, Response(StatusOK, TextPlain, "",
                                                     TextBody(<<"O", "K">>))),
                            1, NoResponse, FALSE, "none"))
  /\ UNCHANGED <<fileserverHits, sinceReset, window, tally>>
  /\ UNCHANGED filterVars
  /\ UNCHANGED lifeVars

HitsPrefix == <<"H", "i", "t", "s", ":", " ">>

\* The format "Hits: %d\n".
MetricsBody_Newline(n) == HitsPrefix \o FormatInt(n) \o <<"\n">>

\* The body handlerMetrics prints for a counter value: "Hits: %d".
MetricsBody(n) == HitsPrefix \o FormatInt(n)

\* handlerMetrics that counts the requests it serves.
HandlerMetrics_Counts(r) ==
  /\ pc[r] = "idle"
  /\ CanCount(fileserverHits)
  /\ \E m \in Methods :
       LET rq == [method |-> m, path |-> "/metrics", payload |-> <<>>]
           g == MethodRestriction(Mux(rq.path).method, m)
       IN  IF ~g.invoke
             THEN /\ Finish(r, Refused(rq, g))
                  /\ fileserverHits' = fileserverHits
             ELSE /\ Finish(r, Exchange(rq,
                               WriteOn(g.resp, Response(StatusOK, TextPlain, "",
                                                 TextBody(MetricsBody(fileserverHits)))),
                               1, NoResponse, FALSE, sinceReset))
                  /\ fileserverHits' = AddInt32(fileserverHits, 1)
  /\ UNCHANGED <<sinceReset, window, tally>>
  /\ UNCHANGED filterVars
  /\ UNCHANGED lifeVars

\* A request for /metrics: the guard, then handlerMetrics, which prints
\* cfg.fileserverHits.Load().
HandlerMetrics(r) ==
  /\ pc[r] = "idle"
  /\ \E m \in Methods :
       LET rq == [method |-> m, path |-> "/metrics", payload |-> <<>>]
           g == MethodRestriction(Mux(rq.path).method, m)
       IN  IF ~g.invoke THEN Finish(r, Refused(rq, g))
           ELSE Finish(r, Exchange(rq,
                            WriteOn(g.resp, Response(StatusOK, TextPlain, "",
                                                     TextBody(MetricsBody(fileserverHits)))),
                            1, NoResponse, FALSE, sinceReset))
  /\ UNCHANGED <<fileserverHits, sinceReset, window, tally>>
  /\ UNCHANGED filterVars
  /\ UNCHANGED lifeVars

\* handlerReset that leaves the counter alone while a request for /app/ is
\* under way.
HandlerReset_SkipWhenBusy(r) ==
  /\ pc[r] = "idle"
  /\ \E m \in Methods :
       LET rq == [method |-> m, path |-> "/reset", payload |-> <<>>]
           g == MethodRestriction(Mux(rq.path).method, m)
       IN  IF ~g.invoke
             THEN /\ Finish(r, Refused(rq, g))
                  /\ UNCHANGED <<fileserverHits, sinceReset, window, tally>>
             ELSE /\ fileserverHits' = IF InFlight \cup Dispatching = {}
                                         THEN StoreInt32(fileserverHits, 0)
                                       ELSE fileserverHits
                  /\ sinceReset' = "clean"
                  /\ window' = NoWindow
                  /\ tally' = [NoTally EXCEPT !.carried = Cardinality(Dispatching)]
                  /\ req' = [req EXCEPT ![r] = rq]
                  /\ pc' = [pc EXCEPT ![r] = "resetWrite"]
                  /\ sent' = sent
  /\ UNCHANGED filterVars
  /\ UNCHANGED lifeVars

\* A request for /reset: the guard, then handlerReset up to and including
\* cfg.fileserverHits.Store(0).
HandlerReset(r) ==
  /\ pc[r] = "idle"
  /\ \E m \in Methods :
       LET rq == [method |-> m, path |-> "/reset", payload |-> <<>>]
           g == MethodRestriction(Mux(rq.path).method, m)
       IN  IF ~g.invoke
             THEN /\ Finish(r, Refused(rq, g))
                  /\ UNCHANGED <<fileserverHits, sinceReset, window, tally>>
             ELSE /\ fileserverHits' = StoreInt32(fileserverHits, 0)
                  /\ sinceReset' = "clean"
                  /\ window' = NoWindow
                  /\ tally' = [NoTally EXCEPT !.carried = Cardinality(Dispatching)]
                  /\ req' = [req EXCEPT ![r] = rq]
                  /\ pc' = [pc EXCEPT ![r] = "resetWrite"]
                  /\ sent' = sent
  /\ UNCHANGED filterVars
  /\ UNCHANGED lifeVars

\* handlerReset, last statement: w.WriteHeader(http.StatusOK), on the
\* ResponseWriter as the guard handed it over.
HandlerResetWrite(r) ==
  /\ pc[r] = "resetWrite"
  /\ LET g == MethodRestriction(Mux(req[r].path).method, req[r].method)
     IN  Finish(r, Exchange(req[r], WriteOn(g.resp, Response(StatusOK, "", "", NoBody)),
                            1, NoResponse, FALSE, "none"))
  /\ UNCHANGED <<fileserverHits, sinceReset, window, tally>>
  /\ UNCHANGED filterVars
  /\ UNCHANGED lifeVars

\* HandleValidateChirp on request rq and a ResponseWriter in state w.
ServeValidateChirp(r, rq, w) ==
  LET v == ValidateChirp(rq.payload)
  IN  Finish(r, Exchange(rq, WriteOn(w, v.resp), 1, NoResponse, v.measured, "none"))

\* A request for /api/validate_chirp: the guard, then HandleValidateChirp.
HandleValidateChirp(r) ==
  /\ pc[r] = "idle"
  /\ \E m \in Methods, b \in ServerPayloads :
       LET rq == [method |-> m, path |-> "/api/validate_chirp", payload |-> b]
           g == MethodRestriction(Mux(rq.path).method, m)
       IN  IF ~g.invoke THEN Finish(r, Refused(rq, g))
           ELSE ServeValidateChirp(r, rq, g.resp)
  /\ UNCHANGED <<fileserverHits, sinceReset, window, tally>>
  /\ UNCHANGED filterVars
  /\ UNCHANGED lifeVars

Next ==
  \E r \in Req :
    \/ MiddlewareMetricsInc(r)
    \/ FileServer(r)
    \/ HandleHome(r)
    \/ HandleHealthz(r)
    \/ HandlerMetrics(r)
    \/ HandlerReset(r)
    \/ HandlerResetWrite(r)
    \/ HandleValidateChirp(r)

Spec == Init /\ [][Next]_vars

\* ------------------------------------- the mux's dispatch as its own step
\* Between the mux handing a request for /app/ to the middleware and the
\* middleware's Add another goroutine can run; here the two are two steps.

\* mux.ServeHTTP finds the pattern /app/ and calls the handler registered for
\* it, the middleware's closure.
MuxDispatch(r) ==
  /\ pc[r] = "idle"
  /\ fileserverHits >= 0
  /\ fileserverHits + Cardinality(Dispatching) < MaxHits
  /\ \E m \in Methods :
       req' = [req EXCEPT ![r] = [method |-> m, path |-> "/app/", payload |-> <<>>]]
  /\ pc' = [pc EXCEPT ![r] = "routed"]
  /\ tally' = Routed(tally)
  /\ UNCHANGED <<fileserverHits, sent, sinceReset, window>>
  /\ UNCHANGED filterVars
  /\ UNCHANGED lifeVars

\* The middleware that counts GET requests only.
MiddlewareAdd_GetOnly(r) ==
  /\ pc[r] = "routed"
  /\ fileserverHits' = IF req[r].method = "GET" THEN AddInt32(fileserverHits, 1)
                       ELSE fileserverHits
  /\ pc' = [pc EXCEPT ![r] = "next"]
  /\ sinceReset' = IF sinceReset = "clean" THEN "dirty" ELSE sinceReset
  /\ window' = IF InFlight = {}
                 THEN [open |-> TRUE, base |-> fileserverHits, count |-> 1]
               ELSE IF window.open THEN [window EXCEPT !.count = @ + 1]
               ELSE window
  /\ tally' = Passed(tally)
  /\ UNCHANGED <<req, sent>>
  /\ UNCHANGED filterVars
  /\ UNCHANGED lifeVars

\* The middleware's closure, first statement: cfg.fileserverHits.Add(1),
\* whatever the request; next.ServeHTTP(w, r) follows.
MiddlewareAdd(r) ==
  /\ pc[r] = "routed"
  /\ fileserverHits' = AddInt32(fileserverHits, 1)
  /\ pc' = [pc EXCEPT ![r] = "next"]
  /\ sinceReset' = IF sinceReset = "clean" THEN "dirty" ELSE sinceReset
  /\ window' = IF InFlight = {}
                 THEN [open |-> TRUE, base |-> fileserverHits, count |-> 1]
               ELSE IF window.open THEN [window EXCEPT !.count = @ + 1]
               ELSE window
  /\ tally' = Passed(tally)
  /\ UNCHANGED <<req, sent>>
  /\ UNCHANGED filterVars
  /\ UNCHANGED lifeVars

NextRoutes ==
  \E r \in Req :
    \/ MuxDispatch(r)
    \/ MiddlewareAdd(r)
    \/ FileServer(r)
    \/ HandleHome(r)
    \/ HandleHealthz(r)
    \/ HandlerMetrics(r)
    \/ HandlerReset(r)
    \/ HandlerResetWrite(r)
    \/ HandleValidateChirp(r)

SpecRoutes == Init /\ [][NextRoutes]_vars

\* ---------------------------------- the guard and the middleware composed
\* MethodRestriction and middlewareMetricsInc are both of the shape handler ->
\* handler; a test can stack them in either order around a handler h and call
\* the result directly.

Chains == {"guard(metrics(h))", "metrics(guard(h))"}

\* The method the guard of the composed handler is built with.
ComposedMethod == "GET"

\* Requests in a composed handler that can still reach the Add.
Uncounted ==
  {r \in Req : \/ pc[r] = "count"
               \/ pc[r] = "guard" /\ req[r].chain = "guard(metrics(h))"}

\* A request is handed to the composed handler: its outer wrapper comes first.
ComposeCall(r) ==
  /\ pc[r] = "idle"
  /\ fileserverHits + Cardinality(Uncounted) < MaxHits
  /\ \E m \in Methods, ch \in Chains :
       /\ req' = [req EXCEPT ![r] = [method |-> m, path |-> "/app/", payload |-> <<>>,
                                     chain |-> ch]]
       /\ pc' = [pc EXCEPT ![r] = IF ch = "guard(metrics(h))" THEN "guard" ELSE "count"]
  /\ UNCHANGED <<fileserverHits, sent, sinceReset, window, tally>>
  /\ UNCHANGED filterVars
  /\ UNCHANGED lifeVars

\* The guard of the composed handler: 405, or on to what it wraps, the
\* middleware when the guard is the outer wrapper and h when it is the inner.
ComposeGuard(r) ==
  /\ pc[r] = "guard"
  /\ LET g == MethodRestriction(ComposedMethod, req[r].method)
     IN  IF ~g.invoke THEN Finish(r, Refused(req[r], g))
         ELSE /\ pc' = [pc EXCEPT ![r] = IF req[r].chain = "guard(metrics(h))"
                                           THEN "count" ELSE "next"]
              /\ UNCHANGED <<req, sent>>
  /\ UNCHANGED <<fileserverHits, sinceReset, window, tally>>
  /\ UNCHANGED filterVars
  /\ UNCHANGED lifeVars

\* The middleware that hands every request to h itself.
ComposeCount_ToHandler(r) ==
  /\ pc[r] = "count"
  /\ fileserverHits' = AddInt32(fileserverHits, 1)
  /\ pc' = [pc EXCEPT ![r] = "next"]
  /\ UNCHANGED <<req, sent, sinceReset, window, tally>>
  /\ UNCHANGED filterVars
  /\ UNCHANGED lifeVars

\* The middleware of the composed handler: Add(1), then on to what it wraps,
\* h when the middleware is the inner wrapper and the guard when it is the
\* outer.
ComposeCount(r) ==
  /\ pc[r] = "count"
  /\ fileserverHits' = AddInt32(fileserverHits, 1)
  /\ pc' = [pc EXCEPT ![r] = IF req[r].chain = "guard(metrics(h))" THEN "next" ELSE "guard"]
  /\ UNCHANGED <<req, sent, sinceReset, window, tally>>
  /\ UNCHANGED filterVars
  /\ UNCHANGED lifeVars

\* h runs: it writes some response on the ResponseWriter as the wrappers
\* handed it on, and returns through them.
ComposeNext(r) ==
  /\ pc[r] = "next"
  /\ \E out \in FileServerResponses :
       LET g == MethodRestriction(ComposedMethod, req[r].method)
       IN  Finish(r, Exchange(req[r], WriteOn(g.resp, out), 1, out, FALSE, "none"))
  /\ UNCHANGED <<fileserverHits, sinceReset, window, tally>>
  /\ UNCHANGED filterVars
  /\ UNCHANGED lifeVars

NextCompose ==
  \E r \in Req :
    \/ ComposeCall(r)
    \/ ComposeGuard(r)
    \/ ComposeCount(r)
    \/ ComposeNext(r)

InitCompose == InitServer /\ InitFilterOff /\ InitNotStarted

SpecCompose == InitCompose /\ [][NextCompose]_vars

\* ------------------------------------------------- the Server's lifecycle
\* Server.ListenAndServe and Server.Shutdown hand over to net/http's
\* http.Server; the steps below are the steps of those two methods at which
\* another goroutine can come in between.

\* No goroutine runs once main has returned or log.Fatalf has ended the process.
Running == mainpc \notin {"stopped", "fatalServe", "fatalShutdown"}

\* The connections of Server s on which a handler is running.
ActiveConns(s) == {c \in Conn : conn[c].srv = s /\ conn[c].st = "active"}

\* The connections of Server s that were accepted and have sent no request yet.
NewConns(s) == {c \in Conn : conn[c].srv = s /\ conn[c].st = "new"}

\* Closing a listening socket resets the connections still in its backlog.
ResetBacklog(s) ==
  [c \in Conn |-> IF conn[c].srv = s /\ conn[c].st = "backlog"
                    THEN [conn[c] EXCEPT !.st = "failed"] ELSE conn[c]]

\* net.Listen that binds the port whoever holds it.
Listen_ReusePort(s, owner) == [err |-> "", port |-> s]

\* net.Listen("tcp", ":8080") by Server s while owner holds the port.
Listen(s, owner) ==
  IF owner # NoServer THEN [err |-> "EADDRINUSE", port |-> owner]
  ELSE [err |-> "", port |-> s]

\* Serve that registers its listener also on a Server that is shutting down.
TrackListener_Always(shutting) == TRUE

\* trackListener(add): refused once the Server is shutting down.
TrackListener(shutting) == ~shutting

\* closeListenersLocked that leaves the listeners open.
CloseListeners_Leave(s, owner, tracked) == owner

\* closeListenersLocked: closes the listeners Serve has registered; the new
\* holder of the port.
CloseListeners(s, owner, tracked) ==
  IF tracked /\ owner = s THEN NoServer ELSE owner

\* closeIdleConns that reports the Server quiescent whatever its connections do.
Quiescent_Always(s, stale) == TRUE

\* closeIdleConns, its result: no connection of s is busy.  A connection is
\* busy while its handler runs, and while it is new unless it has been new
\* for more than 5 seconds (stale).
Quiescent(s, stale) == ActiveConns(s) = {} /\ NewConns(s) \subseteq stale

\* closeIdleConns, its effect: the idle and the stale connections are closed.
CloseIdleConns(s, stale) ==
  [c \in Conn |->
     IF conn[c].srv = s /\ (conn[c].st = "idle" \/ (conn[c].st = "new" /\ c \in stale))
       THEN [conn[c] EXCEPT !.st = "closed"] ELSE conn[c]]

\* ctx.Err() of a context that is done.
CtxErr(ctx) == IF ctx = "expired" THEN "DeadlineExceeded" ELSE "Canceled"

\* ListenAndServe, first statement: a Server that is shutting down returns
\* ErrServerClosed at once.
ListenAndServe(s) ==
  /\ Running
  /\ serve[s].pc = "idle"
  /\ serve' = [serve EXCEPT ![s] =
                 IF inShutdown[s] THEN [pc |-> "done", err |-> "ErrServerClosed"]
                 ELSE [pc |-> "listen", err |-> ""]]
  /\ UNCHANGED <<inShutdown, port, call, conn, mainpc>>
  /\ UNCHANGED ServerVars
  /\ UNCHANGED filterVars

\* ListenAndServe: net.Listen, whose error is returned as it is.
NetListen(s) ==
  /\ Running
  /\ serve[s].pc = "listen"
  /\ LET l == Listen(s, port)
     IN  /\ port' = l.port
         /\ serve' = [serve EXCEPT ![s] =
                        IF l.err # "" THEN [pc |-> "done", err |-> l.err]
                        ELSE [pc |-> "track", err |-> ""]]
  /\ UNCHANGED <<inShutdown, call, conn, mainpc>>
  /\ UNCHANGED ServerVars
  /\ UNCHANGED filterVars

\* Serve: registers the listener, or returns ErrServerClosed and closes the
\* listener on its way out.
ServeTrack(s) ==
  /\ Running
  /\ serve[s].pc = "track"
  /\ IF TrackListener(inShutdown[s])
       THEN /\ serve' = [serve EXCEPT ![s] = [pc |-> "accept", err |-> ""]]
            /\ UNCHANGED <<port, conn>>
       ELSE /\ serve' = [serve EXCEPT ![s] = [pc |-> "done", err |-> "ErrServerClosed"]]
            /\ port' = IF port = s THEN NoServer ELSE port
            /\ conn' = ResetBacklog(s)
  /\ UNCHANGED <<inShutdown, call, mainpc>>
  /\ UNCHANGED ServerVars
  /\ UNCHANGED filterVars

\* Serve: Accept returns a connection, which gets its goroutine.
Accept(s, c) ==
  /\ Running
  /\ serve[s].pc = "accept"
  /\ port = s
  /\ conn[c].srv = s
  /\ conn[c].st = "backlog"
  /\ conn' = [conn EXCEPT ![c].st = "new"]
  /\ UNCHANGED <<inShutdown, serve, port, call, mainpc>>
  /\ UNCHANGED ServerVars
  /\ UNCHANGED filterVars

\* Serve: Accept fails because the listener is closed.
AcceptError(s) ==
  /\ Running
  /\ serve[s].pc = "accept"
  /\ port # s
  /\ serve' = [serve EXCEPT ![s] =
                 [pc |-> "done",
                  err |-> IF inShutdown[s] THEN "ErrServerClosed" ELSE "AcceptError"]]
  /\ UNCHANGED <<inShutdown, port, call, conn, mainpc>>
  /\ UNCHANGED ServerVars
  /\ UNCHANGED filterVars

\* Whether a request is in flight at server1 now, as a call's record keeps it.
Busy == IF ActiveConns("server1") # {} THEN "busy" ELSE "quiet"

\* Some call of Shutdown has returned.
Returned == \E k \in Call : call[k].pc = "done"

\* Some call of Shutdown has closed the listeners.
ListenersClosed == \E k \in Call : call[k].pc \in {"poll", "select", "done"}

\* The contexts a test passes to Shutdown: one that is not done yet, one whose
\* deadline has elapsed, one that is cancelled.  main passes a fresh context
\* with a deadline.
Contexts == {"live", "expired", "cancelled"}

\* Shutdown(ctx) on server1, first statement: inShutdown.Store(true).  A test
\* calls Shutdown at any time and again once a call has returned; main makes
\* one call, after the signal.  The record keeps whether a request was in
\* flight when the deadline elapsed, or at the call if it had elapsed by then
\* (late).
ShutdownStore(k) ==
  /\ Running
  /\ call[k].pc = "idle"
  /\ IF k = 1 THEN TRUE ELSE call[k - 1].pc = "done"
  /\ IF mainpc = "none" THEN TRUE ELSE mainpc = "shutdown" /\ k = 1
  /\ inShutdown' = [inShutdown EXCEPT !["server1"] = TRUE]
  /\ \E ctx \in Contexts :
       /\ mainpc = "shutdown" => ctx = "live"
       /\ call' = [call EXCEPT ![k] =
                     [pc |-> "close", ctx |-> ctx, err |-> "",
                      late |-> IF ctx = "expired" THEN Busy ELSE ""]]
  /\ UNCHANGED <<serve, port, conn, mainpc>>
  /\ UNCHANGED ServerVars
  /\ UNCHANGED filterVars

\* Shutdown: closeListenersLocked, under the Server's mutex.
ShutdownClose(k) ==
  /\ Running
  /\ call[k].pc = "close"
  /\ port' = CloseListeners("server1", port, serve["server1"].pc = "accept")
  /\ conn' = IF port' # port THEN ResetBacklog("server1") ELSE conn
  /\ call' = [call EXCEPT ![k].pc = "poll"]
  /\ UNCHANGED <<inShutdown, serve, mainpc>>
  /\ UNCHANGED ServerVars
  /\ UNCHANGED filterVars

\* Shutdown: listenerGroup.Wait() until Serve has returned, then one round of
\* the polling loop: closeIdleConns, and return nil if it found the Server
\* quiescent.
ShutdownPoll(k) ==
  /\ Running
  /\ call[k].pc = "poll"
  /\ serve["server1"].pc # "accept"
  /\ \E stale \in SUBSET NewConns("server1") :
       /\ conn' = CloseIdleConns("server1", stale)
       /\ call' = IF Quiescent("server1", stale)
                    THEN [call EXCEPT ![k].pc = "done", ![k].err = "nil"]
                    ELSE [call EXCEPT ![k].pc = "select"]
  /\ UNCHANGED <<inShutdown, serve, port, mainpc>>
  /\ UNCHANGED ServerVars
  /\ UNCHANGED filterVars

\* Shutdown: the select of the polling loop: ctx.Done() returns ctx.Err(),
\* the timer leads to the next round.
ShutdownSelect(k) ==
  /\ Running
  /\ call[k].pc = "select"
  /\ \/ /\ call[k].ctx # "live"
        /\ call' = [call EXCEPT ![k].pc = "done", ![k].err = CtxErr(call[k].ctx)]
     \/ call' = [call EXCEPT ![k].pc = "poll"]
  /\ UNCHANGED <<inShutdown, serve, port, conn, mainpc>>
  /\ UNCHANGED ServerVars
  /\ UNCHANGED filterVars

\* The deadline of a call's context elapses while the call is under way.
Expire(k) ==
  /\ Running
  /\ call[k].ctx = "live"
  /\ call[k].pc \notin {"idle", "done"}
  /\ call' = [call EXCEPT ![k].ctx = "expired", ![k].late = Busy]
  /\ UNCHANGED <<inShutdown, serve, port, conn, mainpc>>
  /\ UNCHANGED ServerVars
  /\ UNCHANGED filterVars

\* A client connects to :8080: refused when nobody listens, else queued at
\* the listening socket.  Connections are numbered in the order in which they
\* are attempted; late tells that a call of Shutdown had returned by then.
Connect(c) ==
  /\ Running
  /\ conn[c].st = "none"
  /\ IF c = 1 THEN TRUE ELSE conn[c - 1].st # "none"
  /\ conn' = [conn EXCEPT ![c] =
                [st |-> IF port = NoServer THEN "failed" ELSE "backlog",
                 srv |-> port,
                 late |-> Returned]]
  /\ UNCHANGED <<inShutdown, serve, port, call, mainpc>>
  /\ UNCHANGED ServerVars
  /\ UNCHANGED filterVars

\* conn.serve: a request arrives on an accepted connection, new or kept
\* alive, and is dispatched to the mux.
ReadRequest(c) ==
  /\ Running
  /\ conn[c].st \in {"new", "idle"}
  /\ conn' = [conn EXCEPT ![c].st = "active"]
  /\ UNCHANGED <<inShutdown, serve, port, call, mainpc>>
  /\ UNCHANGED ServerVars
  /\ UNCHANGED filterVars

\* conn.serve: the handler returns; the connection is kept alive unless the
\* Server is shutting down.
HandlerReturn(c) ==
  /\ Running
  /\ conn[c].st = "active"
  /\ conn' = [conn EXCEPT ![c].st = IF inShutdown[conn[c].srv] THEN "closed" ELSE "idle"]
  /\ UNCHANGED <<inShutdown, serve, port, call, mainpc>>
  /\ UNCHANGED ServerVars
  /\ UNCHANGED filterVars

\* The client closes a connection on which no request is in flight.
Hangup(c) ==
  /\ Running
  /\ conn[c].st \in {"new", "idle"}
  /\ conn' = [conn EXCEPT ![c].st = "closed"]
  /\ UNCHANGED <<inShutdown, serve, port, call, mainpc>>
  /\ UNCHANGED ServerVars
  /\ UNCHANGED filterVars

\* main: SIGINT or SIGTERM arrives; main goes on to Shutdown with a context
\* of 5 seconds.
MainSignal ==
  /\ mainpc = "wait"
  /\ mainpc' = "shutdown"
  /\ UNCHANGED <<inShutdown, serve, port, call, conn>>
  /\ UNCHANGED ServerVars
  /\ UNCHANGED filterVars

\* main: Shutdown has returned: log.Fatalf on an error, else "Server stopped".
MainShutdownReturned ==
  /\ mainpc = "shutdown"
  /\ call[1].pc = "done"
  /\ mainpc' = IF call[1].err # "nil" THEN "fatalShutdown" ELSE "stopped"
  /\ UNCHANGED <<inShutdown, serve, port, call, conn>>
  /\ UNCHANGED ServerVars
  /\ UNCHANGED filterVars

\* main's goroutine: ListenAndServe has returned an error other than
\* ErrServerClosed: log.Fatalf.
MainServeReturned ==
  /\ Running
  /\ mainpc # "none"
  /\ serve["server1"].pc = "done"
  /\ serve["server1"].err # "ErrServerClosed"
  /\ mainpc' = "fatalServe"
  /\ UNCHANGED <<inShutdown, serve, port, call, conn>>
  /\ UNCHANGED ServerVars
  /\ UNCHANGED filterVars

\* What the tests do with the Servers.
NextLife ==
  \/ \E s \in Srv :
       \/ ListenAndServe(s)
       \/ NetListen(s)
       \/ ServeTrack(s)
       \/ AcceptError(s)
       \/ \E c \in Conn : Accept(s, c)
  \/ \E k \in Call :
       \/ ShutdownStore(k)
       \/ ShutdownClose(k)
       \/ ShutdownPoll(k)
       \/ ShutdownSelect(k)
       \/ Expire(k)
  \/ \E c \in Conn :
       \/ Connect(c)
       \/ ReadRequest(c)
       \/ HandlerReturn(c)
       \/ Hangup(c)

InitLife == InitServer /\ InitFilterOff /\ InitNotStarted

SpecLife == InitLife /\ [][NextLife]_vars

\* The process of main: its Server, the clients, the signal, and server2 as
\* another process that may hold the port.
NextMain ==
  \/ NextLife
  \/ MainSignal
  \/ MainShutdownReturned
  \/ MainServeReturned

\* main has started its goroutine for ListenAndServe and waits for a signal.
InitMain ==
  /\ InitServer
  /\ InitFilterOff
  /\ inShutdown = [s \in Srv |-> FALSE]
  /\ serve = [s \in Srv |-> [pc |-> "idle", err |-> ""]]
  /\ port = NoServer
  /\ call = [k \in Call |-> NoCall]
  /\ conn = [c \in Conn |-> NoConn]
  /\ mainpc = "wait"

SpecMain == InitMain /\ [][NextMain]_vars

\* ------------------------------------------- the counter near its limit

\* The server after 2147483646 requests for /app/ and no reset.
InitNearLimit ==
  /\ fileserverHits = MaxInt32 - 1
  /\ pc = [r \in Req |-> "idle"]
  /\ req = [r \in Req |-> NoRequest]
  /\ sent = NoExchange
  /\ sinceReset = "none"
  /\ window = NoWindow
  /\ tally = NoTally
  /\ InitFilterOff
  /\ InitServing

SpecNearLimit == InitNearLimit /\ [][Next]_vars

\* ------------------------------------------- HandleValidateChirp, directly

\* Longest run of one code point a generated body starts with.
MaxPad == 142
\* Bodies with at most this many padding code points are also sent in damaged payloads.
MaxDamagedPad == 1

Repeat(c, n) == [i \in 1..n |-> c]

Kerfuffle == <<"k", "e", "r", "f", "u", "f", "f", "l", "e">>
Sharbert == <<"s", "h", "a", "r", "b", "e", "r", "t">>
Fornax == <<"f", "o", "r", "n", "a", "x">>

PadChars == {"a", "U+00E9"}
BodyTails == {<<>>, <<" ">> \o Kerfuffle}

ChirpBodies(maxPad) ==
  {Repeat(c, n) \o t : c \in PadChars, n \in 0..maxPad, t \in BodyTails}

\* Payloads that are one JSON text and carry the body b.
BodyPayloads(b) ==
  { <<Tok("{"), Str(BodyKey), Tok(":"), Str(b), Tok("}")>>,
    <<Tok("{"), Str(<<"i", "d">>), Tok(":"), Tok("num"), Tok(","),
      Str(<<"B", "o", "d", "y">>), Tok(":"), Str(b), Tok("}")>> }

\* Payloads that are one JSON text and carry no string body.
PlainPayloads ==
  { <<Tok("{"), Tok("}")>>,
    <<Tok("null")>>,
    <<Tok("{"), Str(BodyKey), Tok(":"), Tok("null"), Tok("}")>>,
    <<Tok("{"), Str(BodyKey), Tok(":"), Tok("num"), Tok("}")>>,
    <<Tok("{"), Str(BodyKey), Tok(":"), Tok("["), Tok("num"), Tok("]"), Tok("}")>>,
    <<Tok("["), Tok("]")>>,
    <<Str(BodyKey)>>,
    <<Tok("true")>> }

\* A payload cut short, with one token overwritten by junk, or with more text
\* after its value.
Damaged(p) ==
  {SubSeq(p, 1, k) : k \in 0..(Len(p) - 1)}
    \cup {[p EXCEPT ![k] = Tok("bad")] : k \in 1..Len(p)}
    \cup {p \o <<t>> : t \in {Tok("bad"), Tok("}"), Tok("{")}}

ChirpPayloads ==
  UNION {BodyPayloads(b) : b \in ChirpBodies(MaxPad)}
    \cup PlainPayloads
    \cup UNION {Damaged(p) : p \in PlainPayloads}
    \cup UNION {Damaged(p) : p \in UNION {BodyPayloads(b) : b \in ChirpBodies(MaxDamagedPad)}}

\* The tests' call: HandleValidateChirp(rec, req) on a request built by hand.
InitChirp ==
  /\ fileserverHits = 0
  /\ pc = [r \in Req |-> IF r = 1 THEN "validate" ELSE "idle"]
  /\ \E p \in ChirpPayloads :
       req = [r \in Req |-> IF r = 1
                              THEN [method |-> "POST", path |-> "/api/validate_chirp",
                                    payload |-> p]
                              ELSE NoRequest]
  /\ sent = NoExchange
  /\ sinceReset = "none"
  /\ window = NoWindow
  /\ tally = NoTally
  /\ InitFilterOff
  /\ InitNotStarted

CallValidateChirp ==
  /\ pc[1] = "validate"
  /\ ServeValidateChirp(1, req[1], NoResponse)
  /\ UNCHANGED <<fileserverHits, sinceReset, window, tally>>
  /\ UNCHANGED filterVars
  /\ UNCHANGED lifeVars

NextChirp == CallValidateChirp

SpecChirp == InitChirp /\ [][NextChirp]_vars

\* ------------------------------------------------------- profanity filter
\* cleanProfanity is called by the tests (CleanProfanityForTest) but its text
\* is not part of the sources; it is modelled on section 4.5 of the
\* specification: scan for the next profane word delimited by whitespace or a
\* string edge on both sides, replace the word and not its delimiters, resume
\* at the replacement point, until no match is left.

ProfanityList == <<Kerfuffle, Sharbert, Fornax>>

\* A replacement that is itself a listed word.
Mask_Listed == Fornax

\* What a matched word is replaced by.
Mask == <<"*", "*", "*", "*">>

\* A delimiter test that takes punctuation for a word boundary too.
IsDelimiter_WordBoundary(c) == c \in {" ", "\t", "\n", ".", "!", ",", "?"}

\* The characters that delimit a word: whitespace.
IsDelimiter(c) == c \in {" ", "\t", "\n"}

\* A comparison that tells upper case from lower case.
WordMatches_CaseSensitive(word, s) == word = s

\* The case-insensitive comparison of a listed word with a stretch of text.
WordMatches(word, s) == EqualFold(word, s)

\* Length of the listed word that stands at position i of s with a string
\* edge or a delimiter right after it; 0 when there is none.
WordAt(s, i) ==
  LET fits(k) ==
        LET n == Len(ProfanityList[k])
        IN  /\ i + n - 1 <= Len(s)
            /\ (i + n - 1 = Len(s) \/ IsDelimiter(s[i + n]))
            /\ WordMatches(ProfanityList[k], SubSeq(s, i, i + n - 1))
  IN  IF \E k \in 1..Len(ProfanityList) : fits(k)
        THEN Len(ProfanityList[CHOOSE k \in 1..Len(ProfanityList) : fits(k)])
        ELSE 0

\* Position of the first delimited profane word of s whose match, leading
\* delimiter included, begins at position from or later; 0 when there is none.
\* The leading delimiter is the start of the string or the delimiter before
\* the word.
FindMatch(s, from) ==
  LET starts == {i \in 1..Len(s) :
                   /\ \/ i = 1 /\ from = 1
                      \/ i > 1 /\ i - 1 >= from /\ IsDelimiter(s[i - 1])
                   /\ WordAt(s, i) > 0}
  IN  IF starts = {} THEN 0
      ELSE CHOOSE i \in starts : \A j \in starts : i <= j

\* Resuming after the mask and the delimiter that followed the word.
ResumePoint_PastDelimiter(i, n) == i + Len(Mask) + 1

\* Resuming where the word ended before it was replaced.
ResumePoint_PastWord(i, n) == i + n

\* Where the scan resumes after the word of length n at i was replaced: at
\* the replacement.
ResumePoint(i, n) == i

\* s with the n code points from position i replaced by the mask.
ReplaceWord(s, i, n) == SubSeq(s, 1, i - 1) \o Mask \o SubSeq(s, i + n, Len(s))

\* One iteration of the loop: replace the next match and go on, or stop.
RedactStep ==
  /\ rstate = "scan"
  /\ LET i == FindMatch(work, scanFrom)
     IN  IF i = 0
           THEN /\ rstate' = "done"
                /\ UNCHANGED <<work, scanFrom>>
           ELSE /\ work' = ReplaceWord(work, i, WordAt(work, i))
                /\ scanFrom' = ResumePoint(i, WordAt(work, i))
                /\ rstate' = "scan"
  /\ text' = text
  /\ UNCHANGED <<fileserverHits, pc, req, sent, sinceReset, window, tally>>
  /\ UNCHANGED lifeVars

\* cleanProfanity as a function: the loop run to its end.
RECURSIVE RedactFrom(_, _)
RedactFrom(s, from) ==
  LET i == FindMatch(s, from)
  IN  IF i = 0 THEN s
      ELSE RedactFrom(ReplaceWord(s, i, WordAt(s, i)), ResumePoint(i, WordAt(s, i)))

CleanProfanity(s) == RedactFrom(s, 1)

\* Chunks a generated text is made of: a separator followed by a core.
MaxChunks == 3

Separators == {<<>>, <<" ">>, <<"\t">>, <<".">>}
Cores ==
  { <<>>, <<"d">>, Kerfuffle,
    <<"S", "h", "a", "r", "b", "e", "r", "t">>,
    <<"F", "O", "R", "N", "A", "X">> }
Chunks == {sp \o c : sp \in Separators, c \in Cores}

RECURSIVE Texts(_)
Texts(n) ==
  IF n = 0 THEN {<<>>}
  ELSE LET shorter == Texts(n - 1)
       IN  shorter \cup {t \o c : t \in shorter, c \in Chunks}

InitRedact ==
  /\ InitServer
  /\ InitNotStarted
  /\ text \in Texts(MaxChunks)
  /\ work = text
  /\ scanFrom = 1
  /\ rstate = "scan"

NextRedact == RedactStep

SpecRedact == InitRedact /\ [][NextRedact]_vars

\* The filter before it is called.
InitRedactIdle == InitServer /\ InitNotStarted /\ InitFilterOff

\* Chunks the texts of the termination check are made of.
MaxLiveChunks == 2

LiveChunks ==
  {sp \o c : sp \in {<<>>, <<" ">>, <<".">>},
             c \in {Kerfuffle, <<"F", "O", "R", "N", "A", "X">>, <<"d">>}}

RECURSIVE LiveTexts(_)
LiveTexts(n) ==
  IF n = 0 THEN {<<>>}
  ELSE LET shorter == LiveTexts(n - 1)
       IN  shorter \cup {t \o c : t \in shorter, c \in LiveChunks}

\* cleanProfanity is called on a text.
RedactCall ==
  /\ rstate = "off"
  /\ text' \in LiveTexts(MaxLiveChunks)
  /\ work' = text'
  /\ scanFrom' = 1
  /\ rstate' = "scan"
  /\ UNCHANGED <<fileserverHits, pc, req, sent, sinceReset, window, tally>>
  /\ UNCHANGED lifeVars

NextRedactLive == RedactCall \/ RedactStep

\* The loop is a sequential program: once called it takes its next step as
\* long as it has one.
SpecRedactLive == InitRedactIdle /\ [][NextRedactLive]_vars /\ WF_vars(RedactStep)

\* ================================================================ claims

\* ---- helpers of the statements (independent of the operators above)

ValidatePath == "/api/validate_chirp"

\* The exchange completed last was served by HandleValidateChirp itself.
ChirpServed == sent.req.path = ValidatePath /\ sent.calls = 1

\* The payload is one JSON text (RFC 8259): a single value and nothing else.
IsJSONText(toks) == ScanValue(toks, 1) = Len(toks) + 1

\* The payload is one JSON text that decodes into the request structure.
WellFormed(p) == IsJSONText(p) /\ ~Decode(p).err

\* The chirp body a well-formed payload carries.
ChirpBody(p) == Decode(p).body

IsWhitespace(c) == c \in {" ", "\t", "\n"}

IsProfaneWord(tok) ==
  \E k \in 1..Len(ProfanityList) : EqualFold(ProfanityList[k], tok)

\* The maximal runs of non-whitespace of s, in order.
RECURSIVE FieldsFrom(_, _, _)
FieldsFrom(rest, tok, acc) ==
  IF rest = <<>> THEN (IF tok = <<>> THEN acc ELSE Append(acc, tok))
  ELSE IF IsWhitespace(Head(rest))
    THEN FieldsFrom(Tail(rest), <<>>, IF tok = <<>> THEN acc ELSE Append(acc, tok))
  ELSE FieldsFrom(Tail(rest), Append(tok, Head(rest)), acc)

Fields(s) == FieldsFrom(s, <<>>, <<>>)

\* s with every whitespace-delimited word that is on the list masked and
\* every other code point kept.
RECURSIVE MaskWords(_, _)
MaskWords(rest, tok) ==
  LET out == IF IsProfaneWord(tok) THEN Mask ELSE tok
  IN  IF rest = <<>> THEN out
      ELSE IF IsWhitespace(Head(rest))
        THEN out \o <<Head(rest)>> \o MaskWords(Tail(rest), <<>>)
      ELSE MaskWords(Tail(rest), Append(tok, Head(rest)))

ThreeKerfuffles == Kerfuffle \o <<" ">> \o Kerfuffle \o <<" ">> \o Kerfuffle
ThreeMasks == Mask \o <<" ">> \o Mask \o <<" ">> \o Mask

\* ---- C1
\* C1: when the N /app/ requests of a batch of overlapping requests that began
\* at counter value c (window.base) have all completed, and no reset fell in
\* the batch, the counter is exactly c + N: no increment is lost.
C1_NoLostIncrement ==
  (window.open /\ InFlight = {}) =>
    fileserverHits = window.base + window.count

\* A batch of two overlapping requests that began at a counter other than 0 has completed.
C1_Witness ==
  /\ window.open
  /\ InFlight = {}
  /\ window.base >= 1
  /\ window.count >= 2
  /\ fileserverHits = window.base + window.count

\* ---- C2
\* C2: a request to a guarded route whose method differs from the allowed
\* method m is answered 405 with Allow equal to m, the wrapped handler is not
\* entered for it, and no goroutine is ever inside a guarded handler with
\* another method than m.
C2_GuardRefuses ==
  /\ (Mux(sent.req.path).method # "" /\ sent.req.path # ""
        /\ sent.req.method # Mux(sent.req.path).method) =>
       /\ sent.resp.status = 405
       /\ sent.resp.allow = Mux(sent.req.path).method
       /\ sent.calls = 0
  /\ \A r \in Req :
       (pc[r] # "idle" /\ Mux(req[r].path).method # "") =>
         req[r].method = Mux(req[r].path).method

\* A DELETE of /reset was turned away while the counter stood above 0.
C2_Witness ==
  /\ sent.req.path = "/reset"
  /\ sent.req.method = "DELETE"
  /\ sent.resp.status = 405
  /\ sent.resp.allow = "POST"
  /\ sent.calls = 0
  /\ fileserverHits > 0

\* ---- C3
\* C3: a well-formed request whose body has n code points is accepted with
\* status 200 when n <= 140 and rejected with status 400 and the error
\* "Chirp is too long" when n > 140.
C3_LengthRule ==
  (ChirpServed /\ WellFormed(sent.req.payload)) =>
    IF Len(ChirpBody(sent.req.payload)) <= 140
      THEN sent.resp.status = 200
      ELSE /\ sent.resp.status = 400
           /\ sent.resp.body = JSONBody("error", "Chirp is too long")

\* A body of exactly 141 code points was rejected.
C3_Witness ==
  /\ ChirpServed
  /\ WellFormed(sent.req.payload)
  /\ Len(ChirpBody(sent.req.payload)) = 141
  /\ sent.resp.status = 400
  /\ sent.resp.body = JSONBody("error", "Chirp is too long")

\* ---- C4
\* C4: the filter's result is the input with every word that is delimited by
\* whitespace or a string edge and equals a listed word, case ignored,
\* replaced by ****, and with every other code point unchanged.
C4_MasksListedWords ==
  rstate = "done" => work = MaskWords(text, <<>>)

\* The three listed words, in three spellings, were all masked.
C4_Witness ==
  /\ rstate = "done"
  /\ text = Kerfuffle \o <<" ", "S", "h", "a", "r", "b", "e", "r", "t">>
              \o <<" ", "F", "O", "R", "N", "A", "X">>
  /\ work = ThreeMasks

\* ---- C5
\* C5: every listed word of the input is masked, also one whose leading
\* delimiter is the trailing delimiter of the listed word before it, and the
\* whitespace of the input is all still there, in order.
C5_AdjacentAllMasked ==
  rstate = "done" =>
    /\ SelectSeq(work, IsWhitespace) = SelectSeq(text, IsWhitespace)
    /\ Len(Fields(work)) = Len(Fields(text))
    /\ \A i \in 1..Len(Fields(text)) :
         IsProfaneWord(Fields(text)[i]) => Fields(work)[i] = Mask

\* "kerfuffle kerfuffle kerfuffle" became "**** **** ****".
C5_Witness ==
  /\ rstate = "done"
  /\ text = ThreeKerfuffles
  /\ work = ThreeMasks

\* ---- C6
\* C6: a whitespace-delimited word of the input that is not exactly a listed
\* word (a listed word next to punctuation, or inside a longer word) is in
\* the result unchanged.
C6_OthersUntouched ==
  rstate = "done" =>
    /\ Len(Fields(work)) = Len(Fields(text))
    /\ \A i \in 1..Len(Fields(text)) :
         ~IsProfaneWord(Fields(text)[i]) => Fields(work)[i] = Fields(text)[i]

\* "kerfuffle." came out as it went in.
C6_Witness ==
  /\ rstate = "done"
  /\ text = Kerfuffle \o <<".">>
  /\ work = text

\* ---- C7
\* C7: an accepted chirp (well-formed JSON, body of at most 140 code points)
\* is answered 200 with a JSON object whose cleaned_body is the filtered body.
C7_CleanedBody ==
  (ChirpServed /\ WellFormed(sent.req.payload)
     /\ Len(ChirpBody(sent.req.payload)) <= 140) =>
    /\ sent.resp.status = 200
    /\ sent.resp.body.kind = "json"
    /\ sent.resp.body.key = "cleaned_body"
    /\ sent.resp.body.text = CleanProfanity(ChirpBody(sent.req.payload))

\* ---- C8
\* C8: a payload that is not a JSON text, the empty payload included, is
\* answered 400 with the error "Invalid JSON", and the handler does not get
\* as far as the length test.
C8_InvalidJSONRejected ==
  (ChirpServed /\ ~IsJSONText(sent.req.payload)) =>
    /\ sent.resp.status = 400
    /\ sent.resp.body = JSONBody("error", "Invalid JSON")
    /\ ~sent.measured

\* ---- C9
\* C9: every /app/ request handed to the wrapped handler is already in the
\* counter (the counter is the batch's starting value plus the requests
\* handed over so far, in flight, returned or failed), only /app/ requests
\* are handed over, and each completed /app/ exchange entered the wrapped
\* handler once and carries that handler's response as it was written.
C9_CountThenDelegate ==
  /\ window.open => fileserverHits = window.base + window.count
  /\ \A r \in Req : pc[r] = "next" => req[r].path = "/app/"
  /\ sent.req.path = "/app/" =>
       /\ sent.calls = 1
       /\ sent.resp = sent.nextResp

\* The wrapped handler failed and the request is still counted.
C9_Witness ==
  /\ sent.req.path = "/app/"
  /\ sent.resp.status = 500
  /\ sent.calls = 1
  /\ window.open
  /\ window.count >= 2
  /\ fileserverHits = window.base + window.count

\* ---- C10
\* C10: from the Store(0) of handlerReset until the next increment the counter
\* is 0; the reset is answered 200 with no body; a metrics read in that
\* stretch prints "Hits: 0".
C10_ResetToZero ==
  /\ sinceReset = "clean" => fileserverHits = 0
  /\ (sent.req.path = "/reset" /\ sent.calls = 1) =>
       /\ sent.resp.status = 200
       /\ sent.resp.body = NoBody
  /\ (sent.req.path = "/metrics" /\ sent.calls = 1 /\ sent.seen = "clean") =>
       sent.resp.body = TextBody(<<"H", "i", "t", "s", ":", " ", "0">>)

\* A reset that found an /app/ request counted and still in flight has
\* completed, and the counter is 0.
C10_Witness ==
  /\ sent.req.path = "/reset"
  /\ sent.calls = 1
  /\ sent.resp.status = 200
  /\ sinceReset = "clean"
  /\ InFlight # {}
  /\ fileserverHits = 0

\* ---- C11
\* C11: in every reachable state, after any sequence of increments and
\* resets, the hit counter is greater than or equal to 0.
C11_NonNegative == fileserverHits >= 0

\* ---- helpers of the lifecycle statements

\* The connections server1 has accepted and not closed.
OpenConns == {c \in Conn : conn[c].srv = "server1" /\ conn[c].st \in {"new", "active", "idle"}}

\* This step accepts connection c / dispatches a request on connection c.
Accepted(c) == conn[c].st = "backlog" /\ conn'[c].st = "new"
Dispatched(c) == conn[c].st \in {"new", "idle"} /\ conn'[c].st = "active"

\* ---- C12
\* C12: a Shutdown whose context has a deadline returns the deadline error if
\* the deadline elapsed while a request was in flight and success if it did
\* not (every in-flight request had finished by then, or the deadline never
\* elapsed); and when it returns success no request is in flight.
C12_ShutdownResult ==
  \A k \in Call :
    (call[k].pc = "done" /\ call[k].ctx # "cancelled") =>
      /\ call[k].late = "busy" => call[k].err = "DeadlineExceeded"
      /\ call[k].late # "busy" => call[k].err = "nil"
      /\ call[k].err = "nil" => ActiveConns("server1") = {}

\* C12, amended: Shutdown returns success only when server1 has no accepted
\* connection left open, and so no request in flight; it returns an error
\* only when its context is done, and the error is the context's.
C12_ReturnsOnlyWhen ==
  \A k \in Call :
    call[k].pc = "done" =>
      /\ call[k].err \in {"nil", "DeadlineExceeded", "Canceled"}
      /\ call[k].err = "nil" => OpenConns = {}
      /\ call[k].err # "nil" => call[k].ctx # "live" /\ call[k].err = CtxErr(call[k].ctx)

\* A Shutdown whose deadline elapsed with a request in flight has returned
\* the deadline error, and the request is still running.
C12_Witness ==
  \E k \in Call :
    /\ call[k].pc = "done"
    /\ call[k].late = "busy"
    /\ call[k].err = "DeadlineExceeded"
    /\ ActiveConns("server1") # {}

\* ---- C13
\* C13: from the call of Shutdown on, server1 accepts no connection and
\* dispatches no request that arrives, and a connection attempted after
\* Shutdown has returned is never accepted by server1.
C13_NothingAfterCall ==
  /\ [](\A c \in Conn : (conn[c].late /\ conn[c].srv # "server2") =>
                          conn[c].st \in {"backlog", "failed"})
  /\ [][\A c \in Conn :
          (conn[c].srv = "server1" /\ (Accepted(c) \/ Dispatched(c))) =>
            ~inShutdown["server1"]]_vars

\* C13, amended: once Shutdown has closed the listeners, which it does before
\* it returns, server1 accepts no connection, and a connection attempted
\* after Shutdown has returned is never accepted by server1.
C13_NoAcceptAfterClose ==
  /\ [](\A c \in Conn : (conn[c].late /\ conn[c].srv # "server2") =>
                          conn[c].st \in {"backlog", "failed"})
  /\ [][\A c \in Conn :
          (conn[c].srv = "server1" /\ Accepted(c)) => ~ListenersClosed]_vars

\* After a Shutdown that returned nil while server1 was serving, a connection
\* attempt has failed.
C13_Witness ==
  /\ serve["server1"] = [pc |-> "done", err |-> "ErrServerClosed"]
  /\ \E k \in Call : call[k].pc = "done" /\ call[k].err = "nil"
  /\ \E c \in Conn : conn[c].late /\ conn[c].st = "failed"
  /\ \E c \in Conn : ~conn[c].late /\ conn[c].srv = "server1" /\ conn[c].st = "closed"

C15_SafeAndIdempotent ==
  /\ [](Returned => serve["server1"].pc # "accept")
  /\ [](\A k \in Call : (k > 1 /\ call[k].pc = "done") => call[k].err = "nil")
  /\ [][\A k \in Call :
          (k > 1 /\ call'[k] # call[k]) =>
            UNCHANGED <<inShutdown, serve, port, conn>>]_vars

\* C15, amended: in every interleaving of Shutdown with ListenAndServe,
\* server1 is not serving once a Shutdown has returned; and every call of
\* Shutdown made after a call that returned nil returns nil and changes
\* nothing of the Servers and the connections.
C15_SafeAndIdempotentAfterNil ==
  /\ [](Returned => serve["server1"].pc # "accept")
  /\ [](\A k \in Call :
          (call[k].pc = "done" /\ \E j \in 1..(k - 1) : call[j].err = "nil") =>
            call[k].err = "nil")
  /\ [][\A k \in Call :
          (call'[k] # call[k] /\ \E j \in 1..(k - 1) : call[j].err = "nil") =>
            UNCHANGED <<inShutdown, serve, port, conn>>]_vars

\* Shutdown came while ListenAndServe was binding, which then returned
\* ErrServerClosed; a second call, with a context already done, returned nil.
C15_Witness ==
  /\ call[1].pc = "done"
  /\ call[1].err = "nil"
  /\ call[2].pc = "done"
  /\ call[2].ctx # "live"
  /\ call[2].err = "nil"
  /\ serve["server1"] = [pc |-> "done", err |-> "ErrServerClosed"]
  /\ \E c \in Conn : conn[c].srv = "server1" /\ conn[c].st = "failed"

\* ---- C16
\* C16: when the deadline of main's Shutdown has elapsed while a request was
\* in flight and Shutdown has returned the deadline error to main, the process
\* goes on to return from main; the error does not end it.
C16_TimeoutNotFatal ==
  (call[1].pc = "done" /\ call[1].late = "busy" /\ call[1].err = "DeadlineExceeded") =>
    mainpc # "fatalShutdown"

\* ---- helpers of the statements about the routes

\* The method each guarded route of the wired server is registered for.
RouteMethod(path) ==
  CASE path = "/api/healthz"        -> "GET"
    [] path = "/metrics"            -> "GET"
    [] path = "/reset"              -> "POST"
    [] path = "/api/validate_chirp" -> "POST"
    [] OTHER                        -> ""

\* This step completes an exchange on path.
Completes(path) == sent' # sent /\ sent'.req.path = path

Digits == {DecimalDigits[i] : i \in 1..Len(DecimalDigits)}
DigitValue(c) == (CHOOSE i \in 1..Len(DecimalDigits) : DecimalDigits[i] = c) - 1

\* d is the decimal representation of an integer: an optional minus sign and
\* digits, with no leading zero and no minus zero.
IsDecimal(d) ==
  /\ d # <<>>
  /\ LET ds == IF Head(d) = "-" THEN Tail(d) ELSE d
     IN  /\ ds # <<>>
         /\ \A i \in 1..Len(ds) : ds[i] \in Digits
         /\ Len(ds) > 1 => ds[1] # "0"
         /\ Head(d) = "-" => ds[1] # "0"

\* The integer a decimal representation stands for; a negative one is
\* accumulated below zero, where the smallest int32 has room.
RECURSIVE Accumulate(_, _, _)
Accumulate(ds, acc, sign) ==
  IF ds = <<>> THEN acc
  ELSE Accumulate(Tail(ds), acc * 10 + sign * DigitValue(Head(ds)), sign)

DecimalValue(d) ==
  IF Head(d) = "-" THEN Accumulate(Tail(d), 0, 0 - 1) ELSE Accumulate(d, 0, 1)

\* ---- C17
\* C17: on the wired server a request to /api/healthz, /metrics, /reset or
\* /api/validate_chirp whose method is not the route's (GET, GET, POST, POST)
\* is answered 405 with Allow equal to the route's method and does not enter
\* the route's handler, a request with the route's method does enter it, and
\* an exchange on /reset with another method than POST leaves the counter as
\* it was.
C17_RouteMethods ==
  /\ [](RouteMethod(sent.req.path) # "" =>
          IF sent.req.method # RouteMethod(sent.req.path)
            THEN /\ sent.resp.status = 405
                 /\ sent.resp.allow = RouteMethod(sent.req.path)
                 /\ sent.calls = 0
            ELSE /\ sent.resp.status # 405
                 /\ sent.calls = 1)
  /\ [](\A r \in Req : pc[r] = "resetWrite" => req[r].method = "POST")
  /\ [][(Completes("/reset") /\ sent'.req.method # "POST") =>
          fileserverHits' = fileserverHits]_vars

\* A GET of /reset was answered 405 with Allow: POST while the counter stood
\* at its highest value.
C17_Witness ==
  /\ sent.req.path = "/reset"
  /\ sent.req.method = "GET"
  /\ sent.resp.status = 405
  /\ sent.resp.allow = "POST"
  /\ fileserverHits = MaxHits

\* ---- C18
\* C18: handlerMetrics answers 200 with the content type text/plain and a
\* body that is "Hits: " followed by the decimal representation of the
\* counter's value, and nothing after it.
C18_MetricsBody ==
  /\ []((sent.req.path = "/metrics" /\ sent.calls = 1) =>
          /\ sent.resp.status = 200
          /\ sent.resp.contentType = "text/plain; charset=utf-8"
          /\ sent.resp.body.kind = "text"
          /\ Len(sent.resp.body.text) > 6
          /\ SubSeq(sent.resp.body.text, 1, 6) = <<"H", "i", "t", "s", ":", " ">>
          /\ IsDecimal(SubSeq(sent.resp.body.text, 7, Len(sent.resp.body.text))))
  /\ [][(Completes("/metrics") /\ sent'.calls = 1) =>
          LET d == SubSeq(sent'.resp.body.text, 7, Len(sent'.resp.body.text))
          IN  IF IsDecimal(d) THEN DecimalValue(d) = fileserverHits ELSE FALSE]_vars

\* The counter at the largest int32 was printed as "Hits: 2147483647".
C18_Witness ==
  /\ sent.req.path = "/metrics"
  /\ sent.calls = 1
  /\ sent.resp.status = 200
  /\ sent.resp.body.text =
       <<"H", "i", "t", "s", ":", " ", "2", "1", "4", "7", "4", "8", "3", "6", "4", "7">>

\* ---- C19
\* C19: a request served by handlerMetrics leaves the counter at the value it
\* had before the request.
C19_MetricsReadOnly ==
  [][(Completes("/metrics") /\ sent'.calls = 1) =>
       fileserverHits' = fileserverHits]_vars

\* handlerMetrics has printed the counter, 2, and the counter is still 2.
C19_Witness ==
  /\ sent.req.path = "/metrics"
  /\ sent.calls = 1
  /\ sent.resp.body.text = <<"H", "i", "t", "s", ":", " ", "2">>
  /\ fileserverHits = 2
  /\ InFlight = {}

\* ---- C20
\* C20: a request to a guarded route with the route's method enters the
\* wrapped handler once, and the response is the one that handler writes: no
\* Allow header, and the status, content type and body of handleHealthz,
\* handlerMetrics, handlerReset or HandleValidateChirp on that request.
C20_DelegatesUnchanged ==
  (RouteMethod(sent.req.path) # "" /\ sent.req.method = RouteMethod(sent.req.path)) =>
    /\ sent.calls = 1
    /\ sent.resp.allow = ""
    /\ CASE sent.req.path = "/api/healthz" ->
              sent.resp = [status |-> 200, contentType |-> "text/plain; charset=utf-8",
                           allow |-> "", body |-> TextBody(<<"O", "K">>)]
         [] sent.req.path = "/reset" ->
              sent.resp = [status |-> 200, contentType |-> "", allow |-> "", body |-> NoBody]
         [] sent.req.path = "/metrics" ->
              /\ sent.resp.status = 200
              /\ sent.resp.contentType = "text/plain; charset=utf-8"
              /\ sent.resp.body.kind = "text"
         [] OTHER ->
              sent.resp = ValidateChirp(sent.req.payload).resp

\* A POST of a chirp went through the guard and got the validator's 200.
C20_Witness ==
  /\ sent.req.path = "/api/validate_chirp"
  /\ sent.req.method = "POST"
  /\ sent.calls = 1
  /\ sent.resp.status = 200
  /\ sent.resp.allow = ""
  /\ sent.resp.body = JSONBody("valid", "true")

\* ---- helpers of the statements about the chirp handler's responses

\* The bytes of the UTF-8 encoding of a body: one for an ASCII code point, two
\* for U+00E9, three for U+20AC.
EncodedBytes(b) ==
  Len(b) + Cardinality({i \in 1..Len(b) : b[i] = "U+00E9"})
         + 2 * Cardinality({i \in 1..Len(b) : b[i] = "U+20AC"})

\* The payload is a JSON object none of whose keys is "body" in any spelling.
ObjectWithoutBody(p) ==
  /\ IsJSONText(p)
  /\ p[1].t = "{"
  /\ \A i \in 1..(Len(p) - 1) :
       (p[i].t = "str" /\ p[i + 1].t = ":") => ~EqualFold(p[i].s, BodyKey)

\* ---- C21
\* C21: whether HandleValidateChirp accepts a well-formed chirp is decided by
\* the number of code points of its body alone: 140 code points or fewer are
\* accepted, also when they take more than 140 bytes, and 141 code points or
\* more are rejected as too long.
C21_CodePointsNotBytes ==
  (ChirpServed /\ WellFormed(sent.req.payload)) =>
    LET b == ChirpBody(sent.req.payload)
    IN  /\ Len(b) <= 140 => sent.resp.status = 200
        /\ (Len(b) <= 140 /\ EncodedBytes(b) > 140) => sent.resp.status = 200
        /\ Len(b) >= 141 =>
             /\ sent.resp.status = 400
             /\ sent.resp.body = JSONBody("error", "Chirp is too long")

\* A body of 140 code points that takes 280 bytes was accepted.
C21_Witness ==
  /\ ChirpServed
  /\ WellFormed(sent.req.payload)
  /\ ChirpBody(sent.req.payload) = [i \in 1..140 |-> "U+00E9"]
  /\ EncodedBytes(ChirpBody(sent.req.payload)) = 280
  /\ sent.resp.status = 200

\* ---- C22
\* C22: a JSON object without a body field is answered 200 with a JSON object
\* whose cleaned_body is the empty string.
C22_MissingBodyAccepted ==
  (ChirpServed /\ ObjectWithoutBody(sent.req.payload)) =>
    /\ sent.resp.status = 200
    /\ sent.resp.body.kind = "json"
    /\ sent.resp.body.key = "cleaned_body"
    /\ sent.resp.body.text = <<>>

\* ---- C23
\* C23: every response of HandleValidateChirp has the content type
\* application/json and is either 200 with a JSON object that has a
\* cleaned_body field or 400 with a JSON object that has an error field.
C23_TwoShapes ==
  ChirpServed =>
    /\ sent.resp.contentType = "application/json"
    /\ sent.resp.body.kind = "json"
    /\ \/ sent.resp.status = 200 /\ sent.resp.body.key = "cleaned_body"
       \/ sent.resp.status = 400 /\ sent.resp.body.key = "error"

\* ---- C24
\* C24: the filter is idempotent: the text the loop ends with is the filter's
\* result on the input, and the filter applied to that result gives it back.
C24_Idempotent ==
  rstate = "done" =>
    /\ work = CleanProfanity(text)
    /\ CleanProfanity(work) = work

\* "kerfuffle<TAB>FORNAX d" was filtered to "****<TAB>**** d", and filtering
\* that again changes nothing.
C24_Witness ==
  /\ rstate = "done"
  /\ text = Kerfuffle \o <<"\t", "F", "O", "R", "N", "A", "X", " ", "d">>
  /\ work = Mask \o <<"\t">> \o Mask \o <<" ", "d">>
  /\ CleanProfanity(work) = work

\* ---- C30
\* Whitespace-delimited words of s that are listed words.
ProfaneCount(s) ==
  Cardinality({i \in 1..Len(Fields(s)) : IsProfaneWord(Fields(s)[i])})

\* C30: the loop of the filter ends on every input: every iteration either
\* finds no match and stops, or replaces one listed word by the mask, which
\* leaves one listed word fewer and the other words as they were; when the
\* loop has stopped no listed word is left.
C30_Terminates ==
  /\ (rstate = "scan") ~> (rstate = "done")
  /\ [][rstate = "scan" =>
          \/ rstate' = "done" /\ work' = work
          \/ /\ rstate' = "scan"
             /\ ProfaneCount(work') = ProfaneCount(work) - 1
             /\ Len(Fields(work')) = Len(Fields(work))]_vars
  /\ [](rstate = "done" => ProfaneCount(work) = 0)

\* The loop has ended after two replacements, the second of a word whose
\* leading delimiter followed the first.
C30_Witness ==
  /\ rstate = "done"
  /\ ProfaneCount(text) = 2
  /\ text = Kerfuffle \o <<" ", "F", "O", "R", "N", "A", "X">>
  /\ work = Mask \o <<" ">> \o Mask

\* ---- C25
\* C25: every request the chirp validator rejects with 400 and every request
\* the method guard rejects with 405 is answered with a content type and a
\* body.
C25_RejectionsTyped ==
  ((ChirpServed /\ sent.resp.status = 400) \/ (sent.resp.status = 405 /\ sent.calls = 0)) =>
    /\ sent.resp.contentType # ""
    /\ sent.resp.body.kind # "none"

\* C25, amended: a request the chirp validator rejects is answered 400 with
\* the content type application/json and a JSON object whose error field
\* names the reason; a request the method guard rejects is answered 405 with
\* the Allow header naming the route's method, without a content type and
\* without a body.
C25_RejectionsDescribed ==
  /\ (ChirpServed /\ sent.resp.status = 400) =>
       /\ sent.resp.contentType = "application/json"
       /\ sent.resp.body.kind = "json"
       /\ sent.resp.body.key = "error"
       /\ sent.resp.body.val \in {"Invalid JSON", "Chirp is too long"}
  /\ (sent.resp.status = 405 /\ sent.calls = 0) =>
       /\ sent.resp.allow # ""
       /\ sent.resp.allow = RouteMethod(sent.req.path)
       /\ sent.resp.contentType = ""
       /\ sent.resp.body = NoBody

\* The validator behind its guard has rejected a payload that is not JSON.
C25_Witness ==
  /\ sent.req.path = "/api/validate_chirp"
  /\ sent.req.method = "POST"
  /\ sent.calls = 1
  /\ sent.resp.status = 400
  /\ sent.resp.contentType = "application/json"
  /\ sent.resp.body = JSONBody("error", "Invalid JSON")

\* ---- C26
\* The response to a request as a function of the request: the guard's 405,
\* the health check's OK, the validator's verdict on the payload.
StatelessResponse(rq) ==
  IF rq.method # RouteMethod(rq.path)
    THEN [status |-> 405, contentType |-> "", allow |-> RouteMethod(rq.path),
          body |-> NoBody]
  ELSE IF rq.path = "/api/healthz"
    THEN [status |-> 200, contentType |-> "text/plain; charset=utf-8", allow |-> "",
          body |-> TextBody(<<"O", "K">>)]
  ELSE ValidateChirp(rq.payload).resp

\* The request was answered by the guard, the health check or the validator.
AnsweredStateless(rq) ==
  /\ RouteMethod(rq.path) # ""
  /\ \/ rq.method # RouteMethod(rq.path)
     \/ rq.path \in {"/api/healthz", "/api/validate_chirp"}

\* C26: the response of the method guard, of the health check and of the
\* chirp validator to a request is a function of the request: in every
\* interleaving with other requests and at every counter value it is the
\* same, and two such exchanges in a row with the same request have the same
\* response.
C26_RequestAlone ==
  /\ [](AnsweredStateless(sent.req) => sent.resp = StatelessResponse(sent.req))
  /\ [][(AnsweredStateless(sent'.req) /\ sent'.req = sent.req) =>
          sent'.resp = sent.resp]_vars

\* The health check has answered OK in a run in which a request for /app/ is
\* in flight and a reset has stored its 0 and not yet written its response.
C26_Witness ==
  /\ sent.req = [method |-> "GET", path |-> "/api/healthz", payload |-> <<>>]
  /\ sent.resp.status = 200
  /\ InFlight # {}
  /\ \E r \in Req : pc[r] = "resetWrite"

\* ---- helpers of the statements about what the counter counts

\* No goroutine is serving a request.
AllIdle == \A r \in Req : pc[r] = "idle"

\* This step counts: a request passes the middleware's Add.
Counts == tally'.passed = tally.passed + 1

\* ---- C28
\* C28: when a reset runs together with requests for /app/, the counter is,
\* from the reset's Store(0) on, the number of those requests that passed the
\* Add after it: at least 0, at most the requests that were dispatched and
\* not yet counted at the Store plus those dispatched since, and exactly that
\* many once all have completed; what was counted before the Store is gone.
\* Each counting step adds one.
C28_ResetRace ==
  /\ [](sinceReset # "none" =>
          /\ fileserverHits = tally.passed
          /\ fileserverHits >= 0
          /\ fileserverHits <= tally.carried + tally.routed
          /\ AllIdle => fileserverHits = tally.carried + tally.routed)
  /\ [][Counts => fileserverHits' = fileserverHits + 1]_vars

\* A reset stored its 0 between the dispatch of a request and its Add; all
\* have completed and the counter is 1.
C28_Witness ==
  /\ AllIdle
  /\ sinceReset = "dirty"
  /\ tally = [routed |-> 0, passed |-> 1, carried |-> 1]
  /\ fileserverHits = 1
  /\ sent.req.path = "/app/"

\* ---- C29
\* C29: whenever no request is in flight the counter is the number of
\* requests the mux has dispatched to /app/ since the last reset or the
\* start, whatever their method; and an exchange on /, /api/healthz, /metrics
\* or /api/validate_chirp, or one answered 405, leaves the counter as it was.
C29_CountsAppRequests ==
  /\ [](AllIdle => fileserverHits = tally.routed)
  /\ [][(sent' # sent /\ (\/ sent'.req.path \in {"/", "/api/healthz", "/metrics",
                                                 "/api/validate_chirp"}
                          \/ sent'.resp.status = 405)) =>
          fileserverHits' = fileserverHits]_vars

\* C29, amended: whenever no request is in flight the counter is the number
\* of requests for /app/, whatever their method, that passed the middleware's
\* Add since the last reset stored its 0 or since the start: those the mux
\* has dispatched since then and those it had dispatched before and that the
\* Store found not yet counted; and an exchange on /, /api/healthz, /metrics
\* or /api/validate_chirp, or one answered 405, leaves the counter as it was.
C29_CountsPassedRequests ==
  /\ [](AllIdle => /\ fileserverHits = tally.passed
                   /\ fileserverHits = tally.routed + tally.carried)
  /\ [](tally.carried = 0 => tally.passed + Cardinality(Dispatching) = tally.routed)
  /\ [][(sent' # sent /\ (\/ sent'.req.path \in {"/", "/api/healthz", "/metrics",
                                                 "/api/validate_chirp"}
                          \/ sent'.resp.status = 405)) =>
          fileserverHits' = fileserverHits]_vars

\* A POST for /app/ was dispatched before a reset stored its 0 and counted
\* after it, another request for /app/ came later; all have completed and
\* the counter is 2.
C29_Witness ==
  /\ AllIdle
  /\ sinceReset = "dirty"
  /\ tally = [routed |-> 1, passed |-> 2, carried |-> 1]
  /\ fileserverHits = 2
  /\ sent.req = [method |-> "POST", path |-> "/app/", payload |-> <<>>]

\* ---- C27
\* C27: with the guard around the middleware and with the middleware around
\* the guard alike, h is entered, once, exactly for the requests whose method
\* is the guard's; no goroutine is in h with another method; a request with
\* another method is answered 405 with Allow naming the guard's method, with
\* no content type and no body, in both orders; and what h writes is the
\* response.
C27_EitherOrder ==
  /\ sent # NoExchange =>
       IF sent.req.method # "GET"
         THEN /\ sent.calls = 0
              /\ sent.resp = [status |-> 405, contentType |-> "", allow |-> "GET",
                              body |-> NoBody]
         ELSE /\ sent.calls = 1
              /\ sent.resp = sent.nextResp
              /\ sent.resp.allow = ""
  /\ \A r \in Req : pc[r] = "next" => req[r].method = "GET"

\* With the middleware outside, a DELETE was counted and then answered 405 by
\* the guard; h was not entered.
C27_Witness ==
  /\ sent.req.method = "DELETE"
  /\ sent.req.chain = "metrics(guard(h))"
  /\ sent.resp.status = 405
  /\ sent.resp.allow = "GET"
  /\ sent.calls = 0
  /\ fileserverHits = 1
  /\ \A r \in Req : pc[r] = "idle"

====
